---- MODULE Spec2Model ----
(***************************************************************************)
(* Model of src/visualization.py: the seven figure composers of the        *)
(* integrated-gradients visualisation module and the numeric / categorical *)
(* transformations they perform before handing data to matplotlib,         *)
(* seaborn, pandas and a fitted PCA projector.                              *)
(*                                                                         *)
(* Every entry point is one action.  A call is described by its "plan":    *)
(* the sequence of library calls the Python code performs, in program      *)
(* order, for the given arguments.  An exception the code itself raises    *)
(* (an IndexError of an out-of-range subscript, a ValueError) appears in    *)
(* the plan at the place where it is raised.  A renderer or projector call *)
(* may also fail (input "fail" = its position in the plan, 0 = no failure). *)
(* The call performs the plan up to the first exception; nothing in the    *)
(* module catches an exception or closes a figure.                          *)
(*                                                                         *)
(* Numbers: attribution scores and embedding values are floats in the      *)
(* source; the model draws them from small integer ranges and evaluates    *)
(* mean / standard deviation comparisons exactly (no rounding error).       *)
(* Strings that the code inspects (save_str) are sequences of characters.   *)
(***************************************************************************)
EXTENDS Integers, Sequences, FiniteSets, TLC

VARIABLES
    figs,       \* number of figures open in pyplot's global figure registry
    backend,    \* "gui": plt.show() blocks until the windows are closed;
                \* "agg": non-interactive backend, plt.show() returns at once
    fn,         \* entry point of the last call ("none" before the first)
    args,       \* arguments of the last call
    locals,     \* local variables of the last call, as far as they were assigned
    trace,      \* library calls the last call completed, in order
    err,        \* exception that ended the last call, "none" if it returned
    written,    \* names of the image files the last call wrote (under figures/)
    budget      \* calls the driving script has still to make

vars == <<figs, backend, fn, args, locals, trace, err, written, budget>>

(***************************************************************************)
(* Bounds of the model.                                                    *)
(***************************************************************************)
\* visualize_attrs
MaxTokens == 3          \* longest short attribution vector
MaxScore == 2           \* short attribution scores are 0..MaxScore
\* embedding_histogram
MaxN == 4               \* longest short flattened tensor
MaxVal == 3             \* short tensor values are 0..MaxVal
HalfN == 500            \* long tensors have about HalfN and 3*HalfN elements
\* word paths
MaxPathLen == 3         \* longest label sequence / discretized path
MaxPaths == 2           \* most paths in one visualize_word_paths call
\* driving script
MaxCalls == 2           \* calls in one run of the script

(***************************************************************************)
(* Generic helpers.                                                        *)
(***************************************************************************)
Min(S) == CHOOSE x \in S : \A y \in S : x <= y

Range(s) == {s[i] : i \in DOMAIN s}

Count(op, s) == Cardinality({i \in DOMAIN s : s[i] = op})

SeqsUpTo(S, lo, hi) == UNION {[1..n -> S] : n \in lo..hi}

Repeat(x, n) == [i \in 1..n |-> x]

\* Optional[str] = None
None == <<"None">>

(***************************************************************************)
(* Exceptions and the execution of a plan.                                 *)
(***************************************************************************)
ErrorNames == {"IndexError", "ValueError"}

\* calls into matplotlib / seaborn (the renderer collaborator)
RenderOps ==
    {"subplots", "inset_axes", "color_palette", "barplot", "set_xticks",
     "set_xticklabels", "set_ylabel", "set_xlabel", "colorbar", "text",
     "suptitle", "title", "legend", "tight_layout", "axvline", "hist",
     "plot", "scatter", "annotate", "get_cmap", "axis", "table",
     "auto_set_font_size", "set_fontsize", "set_color", "savefig", "show"}

\* calls into the fitted PCA object (the projector collaborator)
ProjectorOps == {"transform"}

\* positions of the plan at which an external collaborator may raise
FailPoints(plan) ==
    {i \in DOMAIN plan : plan[i] \in RenderOps \cup ProjectorOps}

\* position of the first exception, Len(plan) + 1 if there is none
StopAt(plan, fail) ==
    LET raised == {i \in DOMAIN plan : plan[i] \in ErrorNames \/ i = fail}
    IN  IF raised = {} THEN Len(plan) + 1 ELSE Min(raised)

Executed(plan, fail) == SubSeq(plan, 1, StopAt(plan, fail) - 1)

Raised(plan, fail) ==
    LET stop == StopAt(plan, fail)
    IN  IF stop > Len(plan) THEN "none"
        ELSE IF plan[stop] \in ErrorNames THEN plan[stop]
        ELSE "RendererError"

(***************************************************************************)
(* Figure registry, save / show tail shared by the composers.              *)
(***************************************************************************)
\* plt.subplots registers a new figure; nothing ever calls plt.close.  Under
\* a GUI backend plt.show() returns when the user has closed every window,
\* which destroys the figures; under a non-interactive backend it returns
\* at once and destroys nothing.
FigsAfter(done) ==
    LET opened == figs + Count("subplots", done)
    IN  IF Count("show", done) > 0 /\ backend = "gui" THEN 0 ELSE opened

PNG == <<".", "p", "n", "g">>

EndsWith(s, suffix) ==
    /\ Len(s) >= Len(suffix)
    /\ SubSeq(s, Len(s) - Len(suffix) + 1, Len(s)) = suffix

\* if not save_str.endswith(".png"): save_str += ".png"
NormalizeSave(save_str) ==
    IF EndsWith(save_str, PNG) THEN save_str ELSE save_str \o PNG

\* faulty variant of SaveOrShow: the figure is shown after it was saved as well
SaveAndShow(save_str) ==
    IF save_str # None THEN <<"savefig", "show">> ELSE <<"show">>

\* if save_str is not None: ... plt.savefig(...)  else: plt.show()
SaveOrShow(save_str) ==
    IF save_str # None THEN <<"savefig">> ELSE <<"show">>

\* the files a call has written: one per completed savefig
Written(done, name) == Repeat(name, Count("savefig", done))

\* common effect of a call: perform the plan up to the first exception
Call(name, a, l, plan, fail, file) ==
    /\ budget > 0
    /\ budget' = budget - 1
    /\ fn' = name
    /\ args' = a
    /\ locals' = l
    /\ trace' = Executed(plan, fail)
    /\ err' = Raised(plan, fail)
    /\ figs' = FigsAfter(Executed(plan, fail))
    /\ written' = Written(Executed(plan, fail), file)
    /\ UNCHANGED backend

(***************************************************************************)
(* visualize_attrs: rank / colour mapper.                                  *)
(***************************************************************************)
\* df.rank(axis=0, method="min", ascending=False): in the descending order
\* every element of a tie group gets the first position of its group, which
\* is one more than the number of elements that precede the group
RankMinDesc(a) ==
    [i \in DOMAIN a |-> 1 + Cardinality({j \in DOMAIN a : a[j] > a[i]})]

Int8Min == -128
Int8Max == 127

\* float64 -> int8 cast of to_numpy(dtype=np.int8).  A value outside the int8
\* range is undefined behaviour of the C cast: builds wrap modulo 2^8 or
\* saturate.
ToInt8(x, cast) ==
    IF Int8Min <= x /\ x <= Int8Max THEN x
    ELSE IF cast = "wrap" THEN ((x - Int8Min) % 256) + Int8Min
    ELSE IF x > Int8Max THEN Int8Max ELSE Int8Min

CastModes == {"wrap", "saturate"}

\* rank = df.rank(...)["attr"].to_numpy(dtype=np.int8)
Rank8(a, cast) ==
    LET r == RankMinDesc(a) IN [i \in DOMAIN a |-> ToInt8(r[i], cast)]

\* pal = sns.color_palette("summer", len(token_words)): colour j is the j-th
\* of N even samples of the colormap
Palette(n) == [j \in 1..n |-> j]

\* numpy subscript: 0-based, negative subscripts count from the end
IndexOK(n, idx) == -n <= idx /\ idx <= n - 1

At(arr, idx) == IF idx >= 0 THEN arr[idx + 1] ELSE arr[Len(arr) + idx + 1]

\* palette=np.array(pal)[rank]
TakeOK(pal, rank) == \A i \in DOMAIN rank : IndexOK(Len(pal), rank[i])

Take(pal, rank) == [i \in DOMAIN rank |-> At(pal, rank[i])]

\* one iteration of the loop over bl_attrs.items()
AttrsEntryPlan(attrs, n_tokens, cast) ==
    <<"DataFrame", "rank">> \o
    (IF TakeOK(Palette(n_tokens), Rank8(attrs, cast))
     THEN <<"take", "barplot", "set_xticks", "set_xticklabels", "set_ylabel">>
     ELSE <<"IndexError">>)

RECURSIVE AttrsLoopPlan(_, _, _)
AttrsLoopPlan(bl_attrs, n_tokens, cast) ==
    IF bl_attrs = <<>> THEN <<>>
    ELSE AttrsEntryPlan(Head(bl_attrs), n_tokens, cast)
         \o AttrsLoopPlan(Tail(bl_attrs), n_tokens, cast)

AttrsPlan(bl_attrs, token_words, save_str, cast) ==
    <<"subplots", "inset_axes", "color_palette">>
    \o AttrsLoopPlan(bl_attrs, Len(token_words), cast)
    \o <<"colorbar", "set_xticklabels", "text", "suptitle">>
    \o SaveOrShow(save_str)

AttrsLocals(bl_attrs, token_words, cast, done) ==
    [pal     |-> IF Count("color_palette", done) > 0
                 THEN Palette(Len(token_words)) ELSE <<>>,
     rank    |-> [e \in 1..Count("rank", done) |-> Rank8(bl_attrs[e], cast)],
     palette |-> [e \in 1..Count("take", done) |->
                     Take(Palette(Len(token_words)), Rank8(bl_attrs[e], cast))]]

visualize_attrs(bl_attrs, token_words, save_str, cast, fail) ==
    LET plan == AttrsPlan(bl_attrs, token_words, save_str, cast)
    IN  Call("visualize_attrs",
             [bl_attrs |-> bl_attrs, token_words |-> token_words,
              save_str |-> save_str],
             AttrsLocals(bl_attrs, token_words, cast, Executed(plan, fail)),
             plan, fail,
             IF save_str = None THEN None ELSE NormalizeSave(save_str))

(***************************************************************************)
(* embedding_histogram: robust distribution statistics.                    *)
(***************************************************************************)
\* np.sum: pairwise summation of s[lo..hi]
RECURSIVE SumSeq(_, _, _)
SumSeq(s, lo, hi) ==
    IF lo > hi THEN 0
    ELSE IF lo = hi THEN s[lo]
    ELSE LET mid == (lo + hi) \div 2
         IN  SumSeq(s, lo, mid) + SumSeq(s, mid + 1, hi)

Sum(s) == SumSeq(s, 1, Len(s))

SumSq(s) == Sum([i \in DOMAIN s |-> s[i] * s[i]])

\* a / b < c / d for a, c >= 0 and b, d > 0, by continued fractions (the
\* cross products overflow 32-bit integers)
RECURSIVE LessFrac(_, _, _, _)
LessFrac(a, b, c, d) ==
    IF a \div b # c \div d THEN a \div b < c \div d
    ELSE IF c % d = 0 THEN FALSE
    ELSE IF a % b = 0 THEN TRUE
    ELSE LessFrac(d, c % d, b, a % b)

\* With N = len(flattened), S = sum and Q = N * sum of squares - S^2:
\* mu = S / N and sigma = sqrt(Q) / N (np.std divides by N), so for an element
\* x with dev = N * x - S = N * (x - mu):
\*     |x - mu| < 2.58 * sigma  <=>  dev^2 / Q < 2.58^2 = 16641 / 2500
Within258Sigma(dev, Q) == Q > 0 /\ LessFrac(dev * dev, Q, 16641, 2500)

\* flattened > bot, with bot = mu - 2.58 * sigma
AboveBot(x, N, S, Q) == N * x - S > 0 \/ Within258Sigma(N * x - S, Q)

\* flattened < top, with top = mu + 2.58 * sigma
BelowTop(x, N, S, Q) == N * x - S < 0 \/ Within258Sigma(N * x - S, Q)

\* faulty variant of Inside: the comparisons are not strict (bot <= x <= top)
InsideInclusive(x, N, S, Q) ==
    IF Q = 0 THEN N * x - S = 0
    ELSE ~LessFrac(16641, 2500, (N * x - S) * (N * x - S), Q)

\* element of the mask (flattened > bot) & (flattened < top)
Inside(x, N, S, Q) == AboveBot(x, N, S, Q) /\ BelowTop(x, N, S, Q)

\* count = np.sum((flattened > bot) & (flattened < top))
CountInside(flattened, S, Q) ==
    Sum([i \in DOMAIN flattened |->
            IF Inside(flattened[i], Len(flattened), S, Q) THEN 1 ELSE 0])

\* number of elements <= v, for v = 0, 1, ..., vmax
RECURSIVE Cumulative(_, _)
Cumulative(a, vmax) ==
    IF vmax < 0 THEN <<>>
    ELSE Append(Cumulative(a, vmax - 1),
                Cardinality({i \in DOMAIN a : a[i] <= vmax}))

Max(S) == CHOOSE x \in S : \A y \in S : x >= y

\* np.sort: the i-th element of the ascending order is the least value v
\* with at least i elements <= v
Sort(a) ==
    IF a = <<>> THEN <<>>
    ELSE LET vmax == Max(Range(a))
             cum == Cumulative(a, vmax)
         IN  [i \in DOMAIN a |-> Min({v \in 0..vmax : cum[v + 1] >= i})]

\* faulty variant of PyRound: halves are rounded up
PyRoundHalfUp(num, den) ==
    IF 2 * (num % den) >= den THEN num \div den + 1 ELSE num \div den

\* Python 3 round() of the float num / den: halves go to the even neighbour
PyRound(num, den) ==
    LET q == num \div den
        r == num % den
    IN  IF 2 * r < den THEN q
        ELSE IF 2 * r > den THEN q + 1
        ELSE IF q % 2 = 0 THEN q ELSE q + 1

\* n_outliers = round(len(flattened) * 0.001); the float product rounds as
\* the exact quotient len / 1000 does for every len below 20000
NOutliers(n) == PyRound(n, 1000)

HistPlan(flattened) ==
    <<"mean", "std", "sum", "sort", "round">>
    \o (IF IndexOK(Len(flattened), NOutliers(Len(flattened)))
        THEN <<"getitem", "getitem">> ELSE <<"IndexError">>)
    \o Repeat("print", 9)
    \o <<"subplots">> \o Repeat("axvline", 5)
    \o <<"hist", "tight_layout", "show">>

\* mu, sigma, top and bot are kept exactly: mu = S / N, sigma^2 = Q / N^2,
\* top = mu + 2.58 sigma, bot = mu - 2.58 sigma; of an empty tensor numpy
\* returns nan for the mean and the standard deviation
HistLocals(flattened) ==
    LET N == Len(flattened)
        S == Sum(flattened)
        Q == N * SumSq(flattened) - S * S
        sorted == Sort(flattened)
        k == NOutliers(N)
    IN  IF N = 0
        THEN [mu |-> "nan", sigma |-> "nan", count |-> 0,
              flattened_sorted |-> <<>>, n_outliers |-> k]
        ELSE [mu |-> [num |-> S, den |-> N],
              sigma |-> [square_num |-> Q, square_den |-> N * N],
              count |-> CountInside(flattened, S, Q),
              flattened_sorted |-> sorted,
              n_outliers |-> k,
              soft_top |-> At(sorted, k),
              soft_bot |-> At(sorted, -k),
              pct |-> [num |-> 100 * CountInside(flattened, S, Q), den |-> N]]

embedding_histogram(flattened, fail) ==
    Call("embedding_histogram", [flattened |-> flattened],
         HistLocals(flattened), HistPlan(flattened), fail, None)

(***************************************************************************)
(* visualize_ablation_scores.                                              *)
(***************************************************************************)
\* avg_scores: one score curve per method, in insertion order
AblationPlan(avg_scores, save_str) ==
    <<"subplots">> \o Repeat("plot", Len(avg_scores))
    \o (IF avg_scores = <<>> THEN <<"IndexError">> ELSE <<"set_xticks">>)
    \o <<"set_xlabel", "set_ylabel", "legend", "suptitle">>
    \o SaveOrShow(save_str)

visualize_ablation_scores(avg_scores, save_str, fail) ==
    Call("visualize_ablation_scores",
         [avg_scores |-> avg_scores, save_str |-> save_str],
         [num_bbs |-> Len(avg_scores)],
         AblationPlan(avg_scores, save_str), fail,
         IF save_str = None THEN None ELSE NormalizeSave(save_str))

(***************************************************************************)
(* visualize_embedding_space.                                              *)
(***************************************************************************)
\* plt.savefig("figures/pca_embedding_space.png")
EmbeddingSpaceFile == <<"pca_embedding_space">> \o PNG

\* interesting_embs: the labelled points of interest, in insertion order
EmbeddingSpacePlan(interesting_embs) ==
    <<"subplots", "transform", "scatter">>
    \o [i \in 1..(2 * Len(interesting_embs)) |->
            IF i % 2 = 1 THEN "transform" ELSE "annotate"]
    \o <<"set_xlabel", "set_ylabel", "title", "savefig", "show">>

visualize_embedding_space(interesting_embs, fail) ==
    Call("visualize_embedding_space",
         [interesting_embs |-> interesting_embs],
         <<>>,
         EmbeddingSpacePlan(interesting_embs), fail, EmbeddingSpaceFile)

(***************************************************************************)
(* Path annotation: visualize_word_path and visualize_word_paths.          *)
(***************************************************************************)
\* last_word = None: Python's None differs from every label
NoWord == "<None>"

\* the loop "for i, word in enumerate(words): if word != last_word: ...",
\* from (1-based) position i on; n_points is the number of rows of the
\* projected discretized path, whose row i - 1 the annotation subscripts
RECURSIVE AnnotatePlan(_, _, _, _)
AnnotatePlan(words, i, last_word, n_points) ==
    IF i > Len(words) THEN <<>>
    ELSE IF words[i] # last_word
         THEN IF IndexOK(n_points, i - 1)
              THEN <<"annotate">>
                   \o AnnotatePlan(words, i + 1, words[i], n_points)
              ELSE <<"IndexError">>
         ELSE AnnotatePlan(words, i + 1, last_word, n_points)

\* the annotations the loop asks for, in order: label, path and 0-based row
RECURSIVE Annotations(_, _, _, _)
Annotations(words, i, last_word, p) ==
    IF i > Len(words) THEN <<>>
    ELSE IF words[i] # last_word
         THEN <<[text |-> words[i], path |-> p, point |-> i - 1]>>
              \o Annotations(words, i + 1, words[i], p)
         ELSE Annotations(words, i + 1, last_word, p)

WordPathPlan(n_points, word_path, save_str) ==
    <<"subplots", "transform", "transform", "plot", "plot", "legend",
      "title", "set_xlabel", "set_ylabel">>
    \o AnnotatePlan(word_path, 1, NoWord, n_points)
    \o SaveOrShow(save_str)

\* n_points: rows of word_path_emb and of word_path_discretized_emb
visualize_word_path(n_points, word_path, save_str, fail) ==
    LET plan == WordPathPlan(n_points, word_path, save_str)
    IN  Call("visualize_word_path",
             [n_points |-> n_points, word_path |-> word_path,
              save_str |-> save_str],
             [annotated |->
                 SubSeq(Annotations(word_path, 1, NoWord, 1), 1,
                        Count("annotate", Executed(plan, fail)))],
             plan, fail,
             IF save_str = None THEN None ELSE NormalizeSave(save_str))

\* faulty variant of LastWordAtPathStart: last_word is set once, before the loop over
\* the paths, and carried from one path to the next
LastWordCarried(word_path, p) ==
    IF p > 1 /\ word_path[p - 1] # <<>>
    THEN word_path[p - 1][Len(word_path[p - 1])]
    ELSE NoWord

\* last_word = None at the head of the body of the loop over the paths
LastWordAtPathStart(word_path, p) == NoWord

\* label=f"{words[-1]}: ..." raises for an empty label list
PathPlan(word_path, p, n_points) ==
    <<"transform", "transform">>
    \o (IF word_path[p] = <<>> THEN <<"IndexError">>
        ELSE <<"plot", "plot">>
             \o AnnotatePlan(word_path[p], 1,
                             LastWordAtPathStart(word_path, p), n_points))

\* zip(word_path_emb, word_path_discretized_emb, word_path) stops with the
\* shortest of the three
RECURSIVE PathsLoopPlan(_, _, _, _)
PathsLoopPlan(word_path, p, n_paths, n_points) ==
    IF p > n_paths \/ p > Len(word_path) THEN <<>>
    ELSE PathPlan(word_path, p, n_points)
         \o PathsLoopPlan(word_path, p + 1, n_paths, n_points)

RECURSIVE PathsAnnotations(_, _, _)
PathsAnnotations(word_path, p, n_paths) ==
    IF p > n_paths \/ p > Len(word_path) THEN <<>>
    ELSE Annotations(word_path[p], 1, LastWordAtPathStart(word_path, p), p)
         \o PathsAnnotations(word_path, p + 1, n_paths)

WordPathsPlan(n_paths, n_points, word_path, save_str) ==
    <<"subplots", "transform", "scatter", "get_cmap">>
    \o PathsLoopPlan(word_path, 1, n_paths, n_points)
    \o <<"legend", "title", "set_xlabel", "set_ylabel", "tight_layout">>
    \o SaveOrShow(save_str)

\* word_path_emb and word_path_discretized_emb have shape
\* (n_paths, n_points, 768)
visualize_word_paths(n_paths, n_points, word_path, save_str, fail) ==
    LET plan == WordPathsPlan(n_paths, n_points, word_path, save_str)
    IN  Call("visualize_word_paths",
             [n_paths |-> n_paths, n_points |-> n_points,
              word_path |-> word_path, save_str |-> save_str],
             [annotated |->
                 SubSeq(PathsAnnotations(word_path, 1, n_paths), 1,
                        Count("annotate", Executed(plan, fail)))],
             plan, fail,
             IF save_str = None THEN None ELSE NormalizeSave(save_str))

(***************************************************************************)
(* visualize_word_path_table.                                              *)
(***************************************************************************)
Rectangular(word_path) ==
    \A p \in DOMAIN word_path : Len(word_path[p]) = Len(word_path[1])

\* word_path[0] and description[0] raise IndexError for an empty list;
\* np.asarray(...).T[::-1, :] raises for rows of different lengths
TablePlan(word_path, save_str) ==
    IF word_path = <<>> \/ word_path[1] = <<>> THEN <<"IndexError">>
    ELSE IF ~Rectangular(word_path) THEN <<"ValueError">>
    ELSE <<"asarray", "subplots", "axis", "table", "auto_set_font_size",
           "set_fontsize", "set_color", "set_color", "title">>
         \o SaveOrShow(save_str)

\* description = [""] * len(word_path[0]) with its two ends named
Description(n) ==
    [i \in 1..n |-> IF i = n THEN "ORIGINAL"
                    ELSE IF i = 1 THEN "BASELINE" ELSE ""]

\* np.asarray([description] + word_path).T[::-1, :]
TableCells(word_path) ==
    LET rows == <<Description(Len(word_path[1]))>> \o word_path
        n == Len(word_path[1])
    IN  [r \in 1..n |-> [c \in 1..Len(rows) |-> rows[c][n - r + 1]]]

visualize_word_path_table(word_path, save_str, fail) ==
    LET plan == TablePlan(word_path, save_str)
    IN  Call("visualize_word_path_table",
             [word_path |-> word_path, save_str |-> save_str],
             IF Count("asarray", Executed(plan, fail)) > 0
             THEN [np_word_path |-> TableCells(word_path)] ELSE <<>>,
             plan, fail,
             IF save_str = None THEN None ELSE NormalizeSave(save_str))

(***************************************************************************)
(* Initial state: a fresh interpreter, no figure open, nothing called.     *)
(***************************************************************************)
InitWith(n) ==
    /\ figs = 0
    /\ backend \in {"gui", "agg"}
    /\ fn = "none"
    /\ args = <<>>
    /\ locals = <<>>
    /\ trace = <<>>
    /\ err = "none"
    /\ written = <<>>
    /\ budget = n

\* token_words: the code uses the labels only as tick labels; word i is i
Tokens(n) == [i \in 1..n |-> i]

SaveNames == {<<"a">>, <<"a", ".", "p", "n", "g">>, <<"p", "n", "g">>, <<>>}

(***************************************************************************)
(* SpecAttrs: one call of visualize_attrs on every input of the bounds.    *)
(***************************************************************************)
ShortVectors == SeqsUpTo(0..MaxScore, 1, MaxTokens)

\* vectors around the int8 limit: many copies of a top score, then a tail
LongVectors ==
    {Repeat(MaxScore + 1, pad) \o t :
        pad \in {Int8Max - 1, Int8Max}, t \in ShortVectors}

AttrSets ==
    {<<v>> : v \in ShortVectors \cup LongVectors}
    \cup {p \in ShortVectors \X ShortVectors : Len(p[1]) = Len(p[2])}

\* aligned, one label short, one label long
TokenCounts(bl_attrs) ==
    {n \in {Len(bl_attrs[1]) - 1, Len(bl_attrs[1]), Len(bl_attrs[1]) + 1} :
        n >= 0}

InitAttrs == InitWith(1)

CallAttrs ==
    /\ budget > 0
    /\ \E bl_attrs \in AttrSets, save_str \in {None, <<"a">>},
          cast \in CastModes :
            \E n \in TokenCounts(bl_attrs) :
                visualize_attrs(bl_attrs, Tokens(n), save_str, cast, 0)

NextAttrs == CallAttrs

SpecAttrs == InitAttrs /\ [][NextAttrs]_vars

\* every attribution vector of the call has one score per token label
AttrsAligned ==
    \A e \in DOMAIN args.bl_attrs :
        Len(args.bl_attrs[e]) = Len(args.token_words)

\* C1: in visualize_attrs, for aligned vectors of length N >= 1, every rank
\* that occurs selects an entry of the N-entry palette (the colours of every
\* ranked entry are computed, no subscript is out of range) and rank 1
\* selects the first palette entry.
C1_RankIndexesPalette ==
    (fn = "visualize_attrs" /\ AttrsAligned /\ Len(args.token_words) >= 1)
    => /\ err # "IndexError"
       /\ \A e \in DOMAIN locals.rank :
            /\ e \in DOMAIN locals.palette
            /\ \A i \in DOMAIN locals.rank[e] :
                 locals.rank[e][i] = 1 => locals.palette[e][i] = locals.pal[1]

\* descending competition rank of element i of vector a
CompetitionRank(a, i) == 1 + Cardinality({j \in DOMAIN a : a[j] > a[i]})

\* C2: the rank vector visualize_attrs computes for every entry, after the
\* conversion to 8-bit integers, is the descending competition ranking:
\* rank[i] = 1 + (number of elements strictly greater than score[i]).
C2_CompetitionRanking ==
    fn = "visualize_attrs"
    => \A e \in DOMAIN locals.rank :
         \A i \in DOMAIN locals.rank[e] :
            locals.rank[e][i] = CompetitionRank(args.bl_attrs[e], i)

(***************************************************************************)
(* SpecHist: one call of embedding_histogram on every input of the bounds. *)
(***************************************************************************)
ShortTensors == SeqsUpTo(0..MaxVal, 0, MaxN)

LongSizes == {HalfN - 1, HalfN, HalfN + 1, 3 * HalfN}

\* long tensors: two high outliers, a constant bulk, two low outliers
LongTensors ==
    {hi \o Repeat(3, n - 4) \o lo :
        n \in LongSizes, hi \in [1..2 -> 4..6], lo \in [1..2 -> 0..2]}

InitHist == InitWith(1)

CallHistShort ==
    /\ budget > 0
    /\ \E flattened \in ShortTensors :
         \E fail \in {0} \cup FailPoints(HistPlan(flattened)) :
            embedding_histogram(flattened, fail)

CallHistLong ==
    /\ budget > 0
    /\ \E flattened \in LongTensors : embedding_histogram(flattened, 0)

NextHist == CallHistShort \/ CallHistLong

SpecHist == InitHist /\ [][NextHist]_vars

(***************************************************************************)
(* SpecPaths: one call of visualize_word_path or visualize_word_paths on   *)
(* every input of the bounds.                                              *)
(***************************************************************************)
Labels == {"PAD", "good"}

LabelSeqs == SeqsUpTo(Labels, 0, MaxPathLen)

\* lists of 1..MaxPaths label sequences of one length
LabelLists ==
    UNION {[1..k -> [1..n -> Labels]] : k \in 1..MaxPaths, n \in 0..MaxPathLen}

InitPaths == InitWith(1)

CallWordPath ==
    /\ budget > 0
    /\ \E word_path \in LabelSeqs, n_points \in 1..MaxPathLen,
          save_str \in {None, <<"a">>} :
            visualize_word_path(n_points, word_path, save_str, 0)

CallWordPaths ==
    /\ budget > 0
    /\ \E word_path \in LabelLists, n_paths \in 1..MaxPaths,
          n_points \in 1..MaxPathLen, save_str \in {None, <<"a">>} :
            visualize_word_paths(n_paths, n_points, word_path, save_str, 0)

NextPaths == CallWordPath \/ CallWordPaths

SpecPaths == InitPaths /\ [][NextPaths]_vars

(***************************************************************************)
(* Spec: a script that makes up to MaxCalls calls of the entry points, on  *)
(* a few inputs each, with every renderer / projector call able to fail.   *)
(***************************************************************************)
Init == InitWith(MaxCalls)

Saves == {None} \cup SaveNames

\* no failure, or a failure of the first or of the last collaborator call
Fails(plan) ==
    {0} \cup {i \in FailPoints(plan) :
                 \/ \A j \in FailPoints(plan) : i <= j
                 \/ \A j \in FailPoints(plan) : i >= j}

RunAttrs ==
    /\ budget > 0
    /\ \E bl_attrs \in {<<<<1, 1>>>>, <<<<1, 0>>>>, <<<<1, 1>>, <<0, 0>>>>},
          n \in 1..3, save_str \in {None, <<"a">>}, cast \in CastModes :
            \E fail \in Fails(AttrsPlan(bl_attrs, Tokens(n), save_str, cast)) :
                visualize_attrs(bl_attrs, Tokens(n), save_str, cast, fail)

RunHistogram ==
    /\ budget > 0
    /\ \E flattened \in {<<>>, <<1>>, <<0, 3>>} :
         \E fail \in Fails(HistPlan(flattened)) :
            embedding_histogram(flattened, fail)

RunAblation ==
    /\ budget > 0
    /\ \E avg_scores \in {<<>>, <<<<1, 2>>>>, <<<<1, 2>>, <<2, 1>>>>},
          save_str \in {None, <<"a">>} :
            \E fail \in Fails(AblationPlan(avg_scores, save_str)) :
                visualize_ablation_scores(avg_scores, save_str, fail)

RunEmbeddingSpace ==
    /\ budget > 0
    /\ \E interesting_embs \in {<<>>, <<"good">>} :
         \E fail \in Fails(EmbeddingSpacePlan(interesting_embs)) :
            visualize_embedding_space(interesting_embs, fail)

RunWordPath ==
    /\ budget > 0
    /\ \E word_path \in {<<"PAD", "PAD", "good">>, <<"PAD", "good">>},
          n_points \in 2..3, save_str \in {None, <<"a">>} :
            \E fail \in Fails(WordPathPlan(n_points, word_path, save_str)) :
                visualize_word_path(n_points, word_path, save_str, fail)

RunWordPaths ==
    /\ budget > 0
    /\ \E word_path \in {<<<<"PAD", "good">>, <<"good", "good">>>>},
          n_paths \in 1..2, n_points \in 1..2, save_str \in {None, <<"a">>} :
            \E fail \in
                Fails(WordPathsPlan(n_paths, n_points, word_path, save_str)) :
                visualize_word_paths(n_paths, n_points, word_path, save_str,
                                     fail)

RunTable ==
    /\ budget > 0
    /\ \E word_path \in {<<>>, <<<<"PAD", "good">>>>,
                         <<<<"PAD", "good">>, <<"PAD">>>>},
          save_str \in Saves :
            \E fail \in Fails(TablePlan(word_path, save_str)) :
                visualize_word_path_table(word_path, save_str, fail)

Next ==
    \/ RunAblation
    \/ RunAttrs
    \/ RunHistogram
    \/ RunEmbeddingSpace
    \/ RunWordPath
    \/ RunWordPaths
    \/ RunTable

Spec == Init /\ [][Next]_vars

(***************************************************************************)
(* Properties of embedding_histogram (checked under SpecHist).             *)
(***************************************************************************)
HistCalled == fn = "embedding_histogram"

\* b is an ascending rearrangement of a
IsSortOf(b, a) ==
    /\ Len(b) = Len(a)
    /\ \A i \in 1..(Len(b) - 1) : b[i] <= b[i + 1]
    /\ \A v \in Range(a) \cup Range(b) : Count(v, a) = Count(v, b)

\* C3 as stated: for every N >= 1, with k = round(0.001 * N) (k a nearest
\* integer of N / 1000), soft_top = sorted[k] and soft_bot = sorted[N - k]
\* (0-based subscripts into the N sorted elements).
C3_SoftBoundsAsStated ==
    (HistCalled /\ Len(args.flattened) >= 1)
    => LET N == Len(args.flattened)
           k == locals.n_outliers
           sorted == locals.flattened_sorted
       IN  /\ 1000 * k - N <= 500 /\ N - 1000 * k <= 500
           /\ locals.soft_top = sorted[k + 1]
           /\ N - k \in 0..(N - 1)
           /\ locals.soft_bot = sorted[N - k + 1]

\* C3 (amended): for every N >= 1, k = round(0.001 * N) with halves rounded
\* to the even integer; soft_top = sorted[k]; soft_bot = sorted[N - k] when
\* k >= 1 and soft_bot = sorted[0] when k = 0 (0-based subscripts into the
\* ascending order of the flattened tensor).
C3_SoftBounds ==
    (HistCalled /\ Len(args.flattened) >= 1)
    => LET N == Len(args.flattened)
           k == locals.n_outliers
           sorted == locals.flattened_sorted
       IN  /\ IsSortOf(sorted, args.flattened)
           /\ 1000 * k - N <= 500 /\ N - 1000 * k <= 500
           /\ (N % 1000 = 500 => k % 2 = 0)
           /\ locals.soft_top = sorted[k + 1]
           /\ locals.soft_bot = IF k = 0 THEN sorted[1] ELSE sorted[N - k + 1]

\* a returned call on a tensor whose 0.001 * N lies halfway between two
\* integers, with k >= 1 and soft bounds that differ
C3_Witness ==
    /\ HistCalled /\ err = "none"
    /\ Len(args.flattened) % 1000 = 500
    /\ locals.n_outliers >= 1
    /\ locals.soft_top < locals.soft_bot

\* C5: embedding_histogram on N = 0 or N = 1 elements does not fail and
\* reports sigma = 0 (so top = bot = mu) and a containment of 100 %, that is
\* count = N.
C5_DegenerateInput ==
    (HistCalled /\ Len(args.flattened) <= 1)
    => /\ err \notin ErrorNames
       /\ locals.sigma # "nan"
       /\ locals.sigma.square_num = 0
       /\ locals.count = Len(args.flattened)

\* bot < x < top for the exact mean S / N and standard deviation sqrt(Q) / N:
\* (N * x - S)^2 < 2.58^2 * Q
StrictlyBetween(x, N, S, Q) ==
    LET dev == IF N * x >= S THEN N * x - S ELSE S - N * x
    IN  Q > 0 /\ LessFrac(dev * dev, Q, 16641, 2500)

\* C9: for every input of length N >= 1, count is the exact number of
\* elements x with bot < x < top (both strict), and pct = 100 * count / N
\* satisfies 0 <= pct <= 100.
C9_ContainmentCount ==
    (HistCalled /\ Len(args.flattened) >= 1)
    => LET N == Len(args.flattened)
           S == locals.mu.num
           Q == locals.sigma.square_num
       IN  /\ S = Sum(args.flattened)
           /\ Q = N * SumSq(args.flattened) - S * S
           /\ locals.count =
                Cardinality({i \in 1..N :
                                StrictlyBetween(args.flattened[i], N, S, Q)})
           /\ locals.pct.den = N
           /\ locals.pct.num = 100 * locals.count
           /\ 0 <= locals.pct.num
           /\ locals.pct.num <= 100 * locals.pct.den

\* a returned call in which some but not all elements are inside (bot, top)
C9_Witness ==
    /\ HistCalled /\ err = "none"
    /\ 0 < locals.count
    /\ locals.count < Len(args.flattened)

(***************************************************************************)
(* Properties of the path annotation (checked under SpecPaths).            *)
(***************************************************************************)
\* positions (1-based) at which a label run starts
ChangePoints(words) ==
    {i \in DOMAIN words : i = 1 \/ words[i] # words[i - 1]}

NthChange(words, k) ==
    CHOOSE c \in ChangePoints(words) :
        Cardinality({d \in ChangePoints(words) : d <= c}) = k

\* anns annotates the first Len(anns) run starts of words, in order, each
\* with its label at the discretized point of its index; all of them when
\* complete
AnnotatesRuns(words, anns, complete) ==
    /\ Len(anns) <= Cardinality(ChangePoints(words))
    /\ complete => Len(anns) = Cardinality(ChangePoints(words))
    /\ \A k \in DOMAIN anns :
         /\ anns[k].point = NthChange(words, k) - 1
         /\ anns[k].text = words[NthChange(words, k)]

AnnotationsOfPath(p) ==
    LET Mine(a) == a.path = p IN SelectSeq(locals.annotated, Mine)

\* C4: the points visualize_word_path annotates, and the points
\* visualize_word_paths annotates for each path it draws, are exactly the
\* indices i with i = 0 or label[i] # label[i-1], in increasing order, each
\* with label[i] at the i-th discretized point; the first label of a path is
\* annotated whatever the preceding path ended with.  (A call that raises
\* has annotated a prefix of these points; paths without embeddings are not
\* drawn.)
C4_AnnotatesRunStarts ==
    /\ fn = "visualize_word_path"
       => AnnotatesRuns(args.word_path, locals.annotated, err = "none")
    /\ fn = "visualize_word_paths"
       => /\ \A p \in DOMAIN args.word_path :
               AnnotatesRuns(args.word_path[p], AnnotationsOfPath(p),
                             err = "none" /\ p <= args.n_paths)
          /\ \A k \in 1..(Len(locals.annotated) - 1) :
               locals.annotated[k].path <= locals.annotated[k + 1].path

\* a returned visualize_word_paths call whose second path starts with the
\* label the first path ended with, annotated at its point 0
C4_Witness ==
    /\ fn = "visualize_word_paths" /\ err = "none"
    /\ args.n_paths >= 2 /\ Len(args.word_path) >= 2
    /\ Len(args.word_path[1]) >= 2
    /\ args.word_path[1][1] # args.word_path[1][Len(args.word_path[1])]
    /\ args.word_path[2][1] = args.word_path[1][Len(args.word_path[1])]
    /\ \E k \in DOMAIN locals.annotated :
         locals.annotated[k] =
            [text |-> args.word_path[2][1], path |-> 2, point |-> 0]

(***************************************************************************)
(* Properties of whole calls (checked under Spec).                         *)
(***************************************************************************)
Called == fn # "none"

Rendered == {i \in DOMAIN trace : trace[i] \in RenderOps}

\* the lengths the spec requires to agree do not agree
ShapeMismatch ==
    \/ fn = "visualize_attrs" /\ ~AttrsAligned
    \/ fn = "visualize_word_path" /\ Len(args.word_path) # args.n_points
    \/ /\ fn = "visualize_word_paths"
       /\ \E p \in DOMAIN args.word_path :
            Len(args.word_path[p]) # args.n_points

\* C6: a call whose attribution vector length differs from the number of
\* token labels, or whose path length differs from its label count, ends in
\* an error raised before any rendering step.
C6_MismatchFailsFast ==
    ShapeMismatch => (err # "none" /\ Rendered = {})

\* C7: after any sequence of calls, failed or not, no figure is left open.
C7_NoFigureLeftOpen == figs = 0

HasSaveName == "save_str" \in DOMAIN args /\ args.save_str # None

\* C8 as stated: every composer takes an optional save name, and a call
\* that returns has either shown the figure and written nothing (no name)
\* or written one file with a name ending in ".png" and shown nothing.
C8_ExactlyOneOutput ==
    (Called /\ err = "none")
    => /\ "save_str" \in DOMAIN args
       /\ IF HasSaveName
          THEN /\ Count("savefig", trace) = 1 /\ Count("show", trace) = 0
               /\ Len(written) = 1 /\ EndsWith(written[1], PNG)
          ELSE /\ Count("show", trace) = 1 /\ Count("savefig", trace) = 0
               /\ written = <<>>

SaveStrComposers ==
    {"visualize_attrs", "visualize_ablation_scores", "visualize_word_paths",
     "visualize_word_path", "visualize_word_path_table"}

\* C8 (amended): the five composers that take save_str show the figure and
\* write nothing when it is None, and otherwise write one file, named
\* save_str if that ends in ".png" and save_str + ".png" if not, and show
\* nothing; embedding_histogram takes no save name and only shows;
\* visualize_embedding_space takes none either and both writes
\* pca_embedding_space.png and shows.
C8_OutputActions ==
    (Called /\ err = "none")
    => /\ fn \in SaveStrComposers
          => IF args.save_str = None
             THEN /\ Count("show", trace) = 1 /\ Count("savefig", trace) = 0
                  /\ written = <<>>
             ELSE /\ Count("savefig", trace) = 1 /\ Count("show", trace) = 0
                  /\ Len(written) = 1
                  /\ EndsWith(written[1], PNG)
                  /\ \/ written[1] = args.save_str
                     \/ /\ written[1] = args.save_str \o PNG
                        /\ ~EndsWith(args.save_str, PNG)
       /\ fn = "embedding_histogram"
          => /\ Count("show", trace) = 1 /\ Count("savefig", trace) = 0
             /\ written = <<>>
       /\ fn = "visualize_embedding_space"
          => /\ Count("savefig", trace) = 1 /\ Count("show", trace) = 1
             /\ written = <<EmbeddingSpaceFile>>
             /\ trace[Len(trace)] = "show"

\* a returned call that was given the name "a" and wrote a.png
C8_Witness ==
    /\ fn = "visualize_word_path_table" /\ err = "none"
    /\ args.save_str = <<"a">>
    /\ written = <<(<<"a">> \o PNG)>>
    /\ Count("show", trace) = 0

\* C10: a call that ends in an error has produced no output before it: no
\* text printed, no file written, no figure shown.
C10_NoPartialSuccess ==
    (Called /\ err # "none")
    => /\ Count("print", trace) = 0
       /\ Count("savefig", trace) = 0
       /\ Count("show", trace) = 0
       /\ written = <<>>

====
